---------------------------- MODULE Spec2Model ----------------------------
(***************************************************************************)
(* Ingestion pipeline of the Tesla news aggregator: source adapters (RSS,  *)
(* WordPress REST), the sync orchestrators that deduplicate, enrich and    *)
(* persist articles into the content store, and the quick-import and       *)
(* enhance endpoints.                                                      *)
(*                                                                         *)
(* Strings are modelled by the features the code inspects.  A URL is a     *)
(* record (path, number of trailing slashes, query string, upper-case      *)
(* letters); a title is a record (words, upper-case letters); a            *)
(* publishedAt string is a record (wall-clock day, trailing "Z").  Days    *)
(* are days of November 2025.                                              *)
(***************************************************************************)
EXTENDS Integers, Sequences, FiniteSets, TLC

VARIABLES
    rssFeeds,   \* upstream: payload of each configured RSS feed
    wpPosts,    \* upstream: payload of the WordPress posts endpoint
    fetched,    \* outcome of the last direct adapter invocation
    store,      \* content store: sequence of article documents
    run,        \* the handler invocation in progress
    runs,       \* handler invocations started so far (the wall clock)
    faults,     \* failed external calls so far
    response,   \* JSON body of the last response
    hist,       \* history of the current and the previous invocation
    call,       \* the last direct call of a library function: arguments, result
    caches      \* the in-memory translation caches of the process

vars == <<rssFeeds, wpPosts, fetched, store, run, runs, faults, response, hist,
          call, caches>>

---------------------------------------------------------------------------
(* Bounds of the model *)

NumPaths == 2       \* distinct URL paths
MaxSlashes == 1     \* trailing slashes on a raw URL
MaxQuery == 1       \* distinct query strings on a raw URL (0 = none)
MaxWpPosts == 2     \* posts in a WordPress payload handed to the adapter
MaxRuns == 2        \* handler invocations per behaviour
MaxFaults == 1      \* failed external calls per behaviour
TagSlack == 1       \* how far a generation output falls short of the floors
MaxCacheCalls == 2  \* calls made on the translation caches per behaviour
MaxSurplus == 1      \* candidates beyond the per-run cap in a long feed
MaxItems == 2       \* items in the feed handed to the parser
MaxFragments == 2   \* fragments of an HTML body handed to the URL rewrite
MaxImages == 2      \* images of one article

(* Program constants *)

NumFeeds == 2           \* RSS_FEEDS.length
MinParagraphs == 5      \* generateStyledHtmlFromRSS: paragraphCount < 5 rejects
MinHeadings == 2        \* generateStyledHtmlFromRSS: headingCount < 2 rejects
ResetTargetImports == 20     \* targetImports of reset-and-sync
MaxArticlesToProcess == 100  \* maxArticlesToProcess of reset-and-sync
ResetWindow == 30            \* minDate of reset-and-sync: 30 days ago
PerRunCap == 20         \* newArticles.slice(0, 20)
MinContentLength == 100
MinContainerLength == 500
NumContainerPatterns == 5
CronTargetImports == 1  \* targetImports = 1 in the lightweight cron handlers
MinDatePost == 21       \* 2025-11-21T00:00:00Z
MinDateCron == 20       \* 2025-11-20T00:00:00Z

FirstDay == MinDateCron - 1   \* earliest publication day of the model
LastDay == MinDatePost + 1    \* latest publication day of the model
FirstNow == LastDay + 1       \* wall clock at the first invocation

---------------------------------------------------------------------------
(* Value spaces *)

NoText == "none"     \* an empty text

\* a raw date string of a payload: present or not, parseable or not
rawDate(day) == [given |-> TRUE, valid |-> TRUE, day |-> day]
NoDate == [given |-> FALSE, valid |-> FALSE, day |-> 0]
BadDate == [given |-> TRUE, valid |-> FALSE, day |-> 0]

Days == FirstDay..LastDay

Url == [path : 1..NumPaths, slashes : 0..MaxSlashes,
        query : 0..MaxQuery, upper : BOOLEAN]

Title == [words : 1..NumPaths, upper : BOOLEAN]

NoUrl == [path |-> 0, slashes |-> 0, query |-> 0, upper |-> FALSE]   \* ''
NoTitle == [words |-> 0, upper |-> FALSE]                            \* ''

Min(a, b) == IF a < b THEN a ELSE b
Max(a, b) == IF a > b THEN a ELSE b

Range(s) == {s[i] : i \in DOMAIN s}

SeqUpTo(S, n) == UNION {[1..k -> S] : k \in 0..n}

---------------------------------------------------------------------------
(* lib/utils *)

\* strings that new URL() rejects: a word, trailing slashes, and white space
\* between the two or (without slashes) at the end
NonUrl == [word : {1}, slashes : 0..(MaxSlashes + 1), gap : BOOLEAN, upper : BOOLEAN]

\* new URL(guid): hash and search cleared, one trailing slash removed,
\* lower-cased.  '' stays ''.  A string that is no URL is trimmed,
\* lower-cased and stripped of all its trailing slashes.
normalizeGuid(guid) ==
    IF guid = NoUrl THEN NoUrl
    ELSE IF "word" \in DOMAIN guid
    THEN IF guid.slashes = 0 THEN [guid EXCEPT !.gap = FALSE, !.upper = FALSE]
         ELSE [guid EXCEPT !.slashes = 0, !.upper = FALSE]
    ELSE [path |-> guid.path,
          slashes |-> IF guid.slashes > 0 THEN guid.slashes - 1 ELSE 0,
          query |-> 0,
          upper |-> FALSE]

\* lower-case, trim, drop special characters, hyphenate
slugify(title) == title.words

\* title.trim().toLowerCase()
titleKey(title) == [title EXCEPT !.upper = FALSE]

\* new Date(publishedAt).getTime(); day 0 stands for NaN
parseDate(publishedAt) == publishedAt.wall

\* isNaN(new Date(publishedAt).getTime())
invalidDate(publishedAt) == parseDate(publishedAt) = 0

\* the conversion without the isNaN check: an Invalid Date goes through
convertUnchecked(rssDate, now) == [wall |-> rssDate.day, z |-> TRUE]

\* RFC-2822 date to ISO-8601; an unparseable date becomes the current time
convertRSSDateToSanityDateTime(rssDate, now) ==
    IF ~rssDate.valid THEN [wall |-> now, z |-> TRUE]
    ELSE [wall |-> rssDate.day, z |-> TRUE]

---------------------------------------------------------------------------
(* lib/rss-parser *)

\* html with every tag removed: markup-only content has no text
extractPlainText(content) == IF content = "tags" THEN NoText ELSE content

\* one <item>: dropped when title or link is missing
parseRSSItem(item, sourceName, now) ==
    IF item.title = NoTitle \/ item.link = NoUrl THEN <<>>
    ELSE << [guid |-> IF item.guid # NoUrl THEN item.guid ELSE item.link,
             source |-> sourceName,
             title |-> item.title,
             description |-> item.description,
             url |-> item.link,
             hasImage |-> item.hasImage,
             publishedAt |-> IF item.pubDate.given
                             THEN convertRSSDateToSanityDateTime(item.pubDate, now)
                             ELSE [wall |-> now, z |-> TRUE],
             content |-> IF item.encoded # NoText THEN item.encoded
                         ELSE item.description] >>

RECURSIVE parseRSSFeed(_, _, _)
parseRSSFeed(items, sourceName, now) ==
    IF items = <<>> THEN <<>>
    ELSE parseRSSItem(Head(items), sourceName, now)
         \o parseRSSFeed(Tail(items), sourceName, now)

\* RSS_FEEDS[i].sourceName
feedSourceName(i) == IF i = 1 THEN "Not a Tesla App" ELSE "TESLARATI"

\* the date logging of "Not a Tesla App" items calls toISOString() on the
\* parsed pubDate: an unparseable one throws out of the parser, and the
\* adapter drops the feed
parseThrows(items, sourceName) ==
    /\ sourceName = "Not a Tesla App"
    /\ \E k \in DOMAIN items : items[k].pubDate.given /\ ~items[k].pubDate.valid

\* a feed parsed whatever became of its request
staleFeedArticles(feeds, outcome, i, now) ==
    parseRSSFeed(feeds[i], feedSourceName(i), now)

\* what one feed contributes: nothing on a network error, a non-2xx status
\* or an empty body
feedArticles(feeds, outcome, i, now) ==
    IF outcome[i] = "ok" /\ ~parseThrows(feeds[i], feedSourceName(i))
    THEN parseRSSFeed(feeds[i], feedSourceName(i), now)
    ELSE <<>>

RECURSIVE allFeedArticles(_, _, _, _)
allFeedArticles(feeds, outcome, i, now) ==
    IF i > NumFeeds THEN <<>>
    ELSE feedArticles(feeds, outcome, i, now)
         \o allFeedArticles(feeds, outcome, i + 1, now)

\* a key that tells the feeds apart
keyWithSource(article) == <<article.source, article.url>>

\* the key of the adapter's uniqueArticles map
rssDedupKey(article) == article.url

\* Map insertion order, first occurrence of each key wins
RECURSIVE uniqueByKey(_, _)
uniqueByKey(articles, seen) ==
    IF articles = <<>> THEN <<>>
    ELSE IF rssDedupKey(Head(articles)) \in seen
         THEN uniqueByKey(Tail(articles), seen)
         ELSE <<Head(articles)>>
              \o uniqueByKey(Tail(articles), seen \cup {rssDedupKey(Head(articles))})

fetchRSSFeed(feeds, outcome, now) ==
    uniqueByKey(allFeedArticles(feeds, outcome, 1, now), {})

---------------------------------------------------------------------------
(* lib/wordpress-fetcher *)

\* WORDPRESS_SOURCES[0].name
WpSourceName == "TESLARATI"

convertWordPressPostToArticle(post, now) ==
    [guid |-> normalizeGuid(post.link),
     source |-> WpSourceName,
     title |-> post.title,
     description |-> post.excerpt,
     url |-> post.link,
     hasImage |-> post.hasImage,
     publishedAt |-> IF post.date.given THEN [wall |-> post.date.day, z |-> FALSE]
                     ELSE IF post.dateGmt.given
                          THEN [wall |-> post.dateGmt.day, z |-> FALSE]
                          ELSE [wall |-> now, z |-> TRUE],
     content |-> post.content]

\* the whole source yields [] when the request fails, the body is no array,
\* or any post throws while being logged or converted
fetchFromWordPressSource(posts, outcome, now) ==
    IF outcome # "ok" THEN <<>>
    ELSE IF \E i \in DOMAIN posts : posts[i].title = NoTitle THEN <<>>
    ELSE [i \in DOMAIN posts |-> convertWordPressPostToArticle(posts[i], now)]

fetchWordPressArticles(posts, outcome, now) ==
    fetchFromWordPressSource(posts, outcome, now)

---------------------------------------------------------------------------
(* lib/translator *)

\* what the chat-completion call gives back for a generation request
GenOutputs ==
    [kind : {"html"}, p : (MinParagraphs - TagSlack)..MinParagraphs,
     h : (MinHeadings - TagSlack)..MinHeadings]
    \cup {[kind |-> "error", p |-> 0, h |-> 0]}

\* STRICT VALIDATION of the cleaned output
generationAccepted(out) ==
    /\ out.kind = "html"
    /\ ~(out.p < MinParagraphs)
    /\ ~(out.h < MinHeadings)

\* a generation whose success flag ignores the validation
generateUnvalidated(out) ==
    [success |-> out.kind = "html",
     translatedText |-> IF generationAccepted(out) THEN "generated" ELSE NoText]

\* {success, translatedText}: the text is '' on failure
generateStyledHtmlFromRSS(out) ==
    IF generationAccepted(out)
    THEN [success |-> TRUE, translatedText |-> "generated"]
    ELSE [success |-> FALSE, translatedText |-> NoText]

\* the completions the model may return for a generation request, by what
\* the cleanup and the validation look at: <p> tags, other tags whose name
\* begins with p (<pre>, <picture>), <h2>/<h3> tags, class and style
\* attributes with a quoted value, class attributes with an unquoted value
Completions ==
    [p : (MinParagraphs - TagSlack)..(MinParagraphs + TagSlack),
     pLike : 0..TagSlack,
     h : (MinHeadings - TagSlack)..(MinHeadings + TagSlack),
     classes : 0..TagSlack,
     styles : 0..TagSlack,
     bare : 0..TagSlack]

\* FORCE REMOVE all class and style attributes: the two patterns match a
\* quoted value after white space
cleanGeneratedHtml(generatedHtml) ==
    [generatedHtml EXCEPT !.classes = 0, !.styles = 0]

\* (cleanedHtml.match(/<p[^>]*>/gi) || []).length
paragraphCount(cleanedHtml) == cleanedHtml.p + cleanedHtml.pLike

\* (cleanedHtml.match(/<h[2-3][^>]*>/gi) || []).length
headingCount(cleanedHtml) == cleanedHtml.h

\* the call from the completion to the returned {success, translatedText}:
\* no client, a failing request and an empty completion all end in the catch
generateFromCompletion(outcome, generatedHtml) ==
    LET cleanedHtml == cleanGeneratedHtml(generatedHtml)
        out == IF outcome = "ok"
               THEN [kind |-> "html", p |-> paragraphCount(cleanedHtml),
                     h |-> headingCount(cleanedHtml)]
               ELSE [kind |-> "error", p |-> 0, h |-> 0]
        result == generateStyledHtmlFromRSS(out)
    IN  [success |-> result.success,
         translatedText |-> IF result.success THEN cleanedHtml ELSE NoText]

CompletionOutcomes == {"ok", "noClient", "apiError", "empty"}

\* translateText(text): {success, translatedText}
translateText(ok) ==
    IF ok THEN [success |-> TRUE, translatedText |-> "translated"]
    ELSE [success |-> FALSE, translatedText |-> NoText]

\* without the fallback
firstOnly(a, b) == a

\* a || b on strings
OrElse(a, b) == IF a # NoText THEN a ELSE b

---------------------------------------------------------------------------
(* lib/article-scraper *)

\* what a pattern finds in the page: a region of some length, or no match
Absent == [present |-> FALSE, length |-> 0]
region(length) == [present |-> TRUE, length |-> length]

\* regions just under and at the length that counts as substantial
ShortOrLong == {Absent, region(MinContentLength - 1), region(MinContentLength)}

\* <div> matches at and just over the length a container must exceed
ContainerMatches ==
    {Absent, region(MinContainerLength), region(MinContainerLength + 1)}

\* a fetched page: the <article>, the match of each container pattern, the
\* <main>, the <body> with script, style, nav, header, footer and aside
\* removed, and the first ten <p> elements of the whole page joined
Pages ==
    [article : ShortOrLong,
     containers : [1..NumContainerPatterns -> ContainerMatches],
     main : ShortOrLong,
     body : ShortOrLong,
     paragraphs : ShortOrLong]

NoContent == [from |-> "none", length |-> 0]

\* an extraction that passes over regions shorter than the minimum
extractFirstSubstantial(page) ==
    IF page.article.present /\ page.article.length >= MinContentLength
    THEN [from |-> "article", length |-> page.article.length]
    ELSE IF \E k \in 1..NumContainerPatterns :
                page.containers[k].length > MinContainerLength
    THEN [from |-> "container",
          length |-> page.containers[
              CHOOSE k \in 1..NumContainerPatterns :
                  /\ page.containers[k].length > MinContainerLength
                  /\ \A j \in 1..(k - 1) :
                         page.containers[j].length <= MinContainerLength].length]
    ELSE IF page.main.present /\ page.main.length >= MinContentLength
    THEN [from |-> "main", length |-> page.main.length]
    ELSE IF page.body.present THEN [from |-> "body", length |-> page.body.length]
    ELSE NoContent

\* the first pattern that matches supplies the content, whatever its length;
\* only a container has to exceed a length to be taken
extractArticleContent(page) ==
    IF page.article.present
    THEN [from |-> "article", length |-> page.article.length]
    ELSE IF \E k \in 1..NumContainerPatterns :
                /\ page.containers[k].present
                /\ page.containers[k].length > MinContainerLength
    THEN LET first == CHOOSE k \in 1..NumContainerPatterns :
                          /\ page.containers[k].present
                          /\ page.containers[k].length > MinContainerLength
                          /\ \A j \in 1..(k - 1) :
                                 ~(/\ page.containers[j].present
                                   /\ page.containers[j].length > MinContainerLength)
         IN  [from |-> "container", length |-> page.containers[first].length]
    ELSE IF page.main.present
    THEN [from |-> "main", length |-> page.main.length]
    ELSE IF page.body.present
    THEN [from |-> "body", length |-> page.body.length]
    ELSE NoContent

\* a scraper without the paragraph fallback
noFallback(page, rawContent) == rawContent

\* too little extracted: the first ten <p> of the page, when there are any
paragraphFallback(page, rawContent) ==
    IF rawContent.length < MinContentLength /\ page.paragraphs.present
    THEN [from |-> "paragraphs", length |-> page.paragraphs.length]
    ELSE rawContent

FetchOutcomes == {"ok", "network", "http"}

\* never throws: every failure is returned as success: false with an error
scrapeArticleContent(outcome, page) ==
    IF outcome # "ok"
    THEN [success |-> FALSE, error |-> outcome, from |-> "none"]
    ELSE LET rawContent == paragraphFallback(page, extractArticleContent(page))
         IN  IF rawContent.length < MinContentLength
             THEN [success |-> FALSE, error |-> "noContent", from |-> "none"]
             ELSE [success |-> TRUE, error |-> "none", from |-> rawContent.from]

\* what the orchestrator reads of the result: success and the error reason
ScrapeResults ==
    {[success |-> r.success, error |-> r.error] :
        r \in {scrapeArticleContent(outcome, page) :
                  outcome \in FetchOutcomes, page \in Pages}}

---------------------------------------------------------------------------
(* Content store *)

\* GUID if supplied, else URL, normalised: the stored rssGuid
naturalId(article) ==
    normalizeGuid(IF article.guid # NoUrl THEN article.guid ELSE article.url)

\* the translation without a fallback
translatedOnly(result, original) == result.translatedText

\* titleAr / descriptionAr: the translation, or the English text as fallback
translatedOr(result, original) ==
    IF result.success THEN result.translatedText
    ELSE IF original THEN "untranslated" ELSE NoText

\* the document handed to adminClient.create
sanityArticle(article, titleAr, descriptionAr, content, contentAr, htmlContentAr, asset) ==
    [title |-> article.title,
     imageUrl |-> IF asset THEN "cdn" ELSE IF article.hasImage THEN "original"
                  ELSE "none",
     titleAr |-> titleAr,
     slug |-> slugify(article.title),
     description |-> OrElse(article.description, content),
     descriptionAr |-> descriptionAr,
     content |-> content,
     contentAr |-> contentAr,
     htmlContentAr |-> htmlContentAr,
     image |-> asset,
     publishedAt |-> article.publishedAt,
     sourceUrl |-> article.url,
     sourceName |-> article.source,
     rssGuid |-> naturalId(article)]

---------------------------------------------------------------------------
(* Handler invocations *)

IdleRun ==
    [handler |-> "idle", pc |-> "idle", todo |-> <<>>, pending |-> <<>>,
     imported |-> 0, failed |-> 0, skipped |-> 0, errors |-> 0,
     batchSkipped |-> 0, duplicates |-> 0, candidates |-> 0]

NoRun ==
    [handler |-> "none", imported |-> 0, failed |-> 0, creates |-> 0,
     candidates |-> 0, feedsOk |-> TRUE, aborted |-> FALSE, leftover |-> 0]

\* no generation request was made
NoGen == [kind |-> "none", p |-> 0, h |-> 0]

\* outcomes of the external calls of the stages last run for an article
NoStage ==
    [scrapeOk |-> TRUE, scrapeError |-> "none", uploadOk |-> TRUE, titleOk |-> TRUE,
     descOk |-> TRUE, gen |-> NoGen]

\* the last write to the store: the call, the handler that made it, the
\* generation output it followed, whether the source text was non-empty, and
\* the htmlContentAr written
NoWrite ==
    [op |-> "none", by |-> "none", gen |-> NoGen, upstream |-> FALSE,
     body |-> NoText]

NoResponse ==
    [status |-> 0, fields |-> {}, imported |-> 0, failed |-> 0, skipped |-> 0,
     errors |-> 0, duplicates |-> 0, enhanced |-> 0]

Now == FirstNow + runs

FeedOutcomes == {"ok", "network", "http", "empty"}

\* number of failed calls among the outcomes
failures(S) == Cardinality(S)

\* an external call may fail while the behaviour's fault budget lasts
mayFail(n) == faults + n <= MaxFaults

\* the body of the outer catch: status 500, no counts
errorResponse ==
    [NoResponse EXCEPT !.status = 500, !.fields = {"success", "error", "message"}]

\* bookkeeping when an invocation returns
finished(h, summary) ==
    [h EXCEPT !.before = h.last, !.last = summary]

started(h, feedsOk, leftover) ==
    [h EXCEPT !.creates = <<>>, !.storeBefore = Len(store), !.feedsOk = feedsOk,
              !.leftover = leftover]

summaryOf(r, h) ==
    [handler |-> r.handler, imported |-> r.imported, failed |-> r.failed,
     creates |-> Len(h.creates), candidates |-> r.candidates,
     feedsOk |-> h.feedsOk, aborted |-> FALSE, leftover |-> h.leftover]

\* the first step of the per-article loop body
loopEntry(handler) == IF handler = "post" THEN "check" ELSE "stages"

\* reset-and-sync leaves its loop once the target is imported or the
\* maximum has been processed; the other handlers run over their slice
loopBreaks(r) ==
    /\ r.handler = "reset"
    /\ \/ r.imported >= ResetTargetImports
       \/ r.candidates - Len(r.todo) + 1 >= MaxArticlesToProcess

\* a summary that drops the failure count and the error list
summaryWithoutErrors(r) ==
    [NoResponse EXCEPT
        !.status = 200,
        !.fields = {"success", "message", "imported", "skipped"},
        !.imported = r.imported, !.skipped = r.skipped + r.batchSkipped]

\* the JSON summary returned after the processing loop
summaryResponse(r) ==
    IF r.handler = "reset"
    THEN [NoResponse EXCEPT
             !.status = 200,
             !.fields = {"success", "message", "deleted", "syncResults"},
             !.imported = r.imported, !.failed = r.failed,
             !.skipped = r.skipped, !.errors = r.errors]
    ELSE IF r.handler = "post"
    THEN [NoResponse EXCEPT
             !.status = 200,
             !.fields = {"success", "message", "imported", "failed", "skipped",
                         "skippedDetails", "errors"},
             !.imported = r.imported, !.failed = r.failed,
             !.skipped = r.skipped + r.batchSkipped, !.errors = r.errors]
    ELSE [NoResponse EXCEPT
             !.status = 200,
             !.fields = {"success", "message", "imported", "failed", "skipped",
                         "processed", "remaining", "errors", "timestamp"}
                        \cup (IF r.handler = "cron" THEN {} ELSE {"duplicates"}),
             !.imported = r.imported, !.failed = r.failed,
             !.skipped = r.batchSkipped, !.duplicates = r.duplicates,
             !.errors = r.errors]

\* a loop that returns after its first iteration
returnAtOnce(r, h) ==
    /\ run' = IdleRun
    /\ response' = summaryResponse(r)
    /\ hist' = finished(h, summaryOf(r, h))

\* end of one loop iteration: the next article, or the handler returns
continueOrReturn(r, h) ==
    IF Len(r.todo) > 1 /\ ~loopBreaks(r)
    THEN /\ run' = [r EXCEPT !.todo = Tail(@), !.pending = <<>>,
                             !.pc = loopEntry(r.handler)]
         /\ response' = response
         /\ hist' = h
    ELSE /\ run' = IdleRun
         /\ response' = summaryResponse(r)
         /\ hist' = finished(h, summaryOf(r, h))

---------------------------------------------------------------------------
(* api/sync-articles: POST *)

\* STEP 1: an article whose GUID key or title key was already seen in the
\* batch is dropped
RECURSIVE dedupInFeed(_, _, _)
dedupInFeed(articles, seenGuids, seenTitles) ==
    IF articles = <<>> THEN <<>>
    ELSE LET a == Head(articles)
             guidKey == naturalId(a)
             tKey == titleKey(a.title)
         IN  IF (guidKey # NoUrl /\ guidKey \in seenGuids) \/ tKey \in seenTitles
             THEN dedupInFeed(Tail(articles), seenGuids, seenTitles)
             ELSE <<a>> \o dedupInFeed(Tail(articles),
                                       IF guidKey # NoUrl
                                       THEN seenGuids \cup {guidKey}
                                       ELSE seenGuids,
                                       seenTitles \cup {tKey})

\* STEP 2: too old, or publishedAt already known (in the store or earlier in
\* the batch): skipped; the rest is new
RECURSIVE filterNewArticles(_, _)
filterNewArticles(articles, existingPublishedDates) ==
    IF articles = <<>> THEN [new |-> <<>>, skipped |-> 0]
    ELSE LET a == Head(articles)
         IN  IF invalidDate(a.publishedAt)
                \/ parseDate(a.publishedAt) < MinDatePost
                \/ a.publishedAt \in existingPublishedDates
             THEN LET r == filterNewArticles(Tail(articles), existingPublishedDates)
                  IN  [new |-> r.new, skipped |-> r.skipped + 1]
             ELSE LET r == filterNewArticles(Tail(articles),
                               existingPublishedDates \cup {a.publishedAt})
                  IN  [new |-> <<a>> \o r.new, skipped |-> r.skipped]

PostStart ==
    /\ run.handler = "idle"
    /\ runs < MaxRuns
    /\ runs' = runs + 1
    /\ \E outcome \in [1..NumFeeds -> FeedOutcomes], storeUp \in BOOLEAN :
        LET rssArticles == fetchRSSFeed(rssFeeds, outcome, Now)
            deduplicated == dedupInFeed(rssArticles, {}, {})
            existing == {store[i].publishedAt : i \in DOMAIN store}
            f == filterNewArticles(deduplicated, existing)
            todo == SubSeq(f.new, 1, Min(PerRunCap, Len(f.new)))
            feedsOk == \A i \in 1..NumFeeds : outcome[i] = "ok"
            nFailed == failures({i \in 1..NumFeeds : outcome[i] # "ok"})
                       + (IF storeUp THEN 0 ELSE 1)
            h == started(hist, feedsOk, Len(f.new) - Len(todo))
            early == [NoRun EXCEPT !.handler = "post", !.feedsOk = feedsOk,
                                    !.aborted = ~storeUp]
        IN  /\ mayFail(nFailed)
            /\ faults' = faults + nFailed
            /\ IF ~storeUp
               THEN /\ response' = errorResponse
                    /\ run' = IdleRun
                    /\ hist' = finished(h, early)
               ELSE IF f.new = <<>>
               THEN /\ response' = [NoResponse EXCEPT
                                       !.status = 200,
                                       !.fields = {"success", "message", "imported",
                                                   "skipped"},
                                       !.skipped = Len(rssArticles)]
                    /\ run' = IdleRun
                    /\ hist' = finished(h, early)
               ELSE /\ response' = NoResponse
                    /\ run' = [IdleRun EXCEPT !.handler = "post", !.pc = "check",
                                             !.todo = todo, !.skipped = f.skipped,
                                             !.batchSkipped = f.skipped,
                                             !.candidates = Len(todo)]
                    /\ hist' = h
    /\ UNCHANGED <<caches, call, rssFeeds, wpPosts, fetched, store>>

\* the loop body without its defensive re-check
RecheckSkipped ==
    /\ run.pc = "check"
    /\ run' = [run EXCEPT !.pc = "stages"]
    /\ UNCHANGED <<caches, call, rssFeeds, wpPosts, fetched, store, runs, faults, response, hist>>

\* defensive re-check right before processing: rssGuid or slug already stored
Recheck ==
    /\ run.pc = "check"
    /\ \E storeUp \in BOOLEAN :
        LET a == Head(run.todo)
            checkExisting == {i \in DOMAIN store :
                                 \/ store[i].rssGuid = naturalId(a)
                                 \/ store[i].slug = slugify(a.title)}
        IN  /\ storeUp \/ mayFail(1)
            /\ faults' = faults + (IF storeUp THEN 0 ELSE 1)
            /\ IF ~storeUp
               THEN continueOrReturn([run EXCEPT !.failed = @ + 1, !.errors = @ + 1], hist)
               ELSE IF checkExisting # {}
               THEN continueOrReturn([run EXCEPT !.skipped = @ + 1], hist)
               ELSE /\ run' = [run EXCEPT !.pc = "stages"]
                    /\ UNCHANGED <<response, hist>>
    /\ UNCHANGED <<caches, call, rssFeeds, wpPosts, fetched, store, runs>>

\* scrape, upload, translate, generate: the document to create, or the
\* article fails on a rejected generation
FullStages ==
    /\ run.pc = "stages"
    /\ run.handler \in {"post", "cron", "reset"}
    /\ \E scraped \in ScrapeResults, uploadOk \in BOOLEAN, titleOk \in BOOLEAN,
          descOk \in BOOLEAN, out \in GenOutputs :
        LET a == Head(run.todo)
            scrapeOk == scraped.success
            fullArticleContent == IF scrapeOk THEN "text" ELSE NoText
            rssContent == OrElse(a.content, a.description)
            contentToUse == OrElse(fullArticleContent, rssContent)
            plainText == OrElse(fullArticleContent, extractPlainText(contentToUse))
            asset == a.hasImage /\ uploadOk
            titleAr == translatedOr(translateText(titleOk), TRUE)
            descriptionAr == translatedOr(translateText(descOk), a.description # NoText)
            htmlGeneration == generateStyledHtmlFromRSS(out)
            htmlContentAr == IF plainText # NoText THEN htmlGeneration.translatedText
                             ELSE NoText
            contentAr == IF htmlContentAr # NoText THEN "generatedText" ELSE NoText
            textContent == OrElse(plainText, a.description)
            doc == sanityArticle(a, titleAr, descriptionAr, textContent,
                                 OrElse(contentAr, descriptionAr),
                                 OrElse(htmlContentAr, contentAr), asset)
            generated == plainText # NoText
            stage == [scrapeOk |-> scrapeOk, scrapeError |-> scraped.error,
                      uploadOk |-> uploadOk, titleOk |-> titleOk, descOk |-> descOk,
                      gen |-> IF generated THEN out ELSE NoGen]
            nFailed == failures({c \in {"scrape", "upload", "title", "desc", "generate"} :
                                   \/ c = "scrape" /\ ~scrapeOk
                                   \/ c = "upload" /\ a.hasImage /\ ~uploadOk
                                   \/ c = "title" /\ ~titleOk
                                   \/ c = "desc" /\ ~descOk
                                   \/ c = "generate" /\ generated
                                      /\ ~htmlGeneration.success})
        IN  /\ a.hasImage \/ uploadOk
            /\ generated \/ out.kind = "error"
            /\ mayFail(nFailed)
            /\ faults' = faults + nFailed
            /\ IF generated /\ ~htmlGeneration.success
               THEN continueOrReturn([run EXCEPT !.failed = @ + 1, !.errors = @ + 1],
                                     [hist EXCEPT !.stage = stage])
               ELSE /\ run' = [run EXCEPT !.pc = "create", !.pending = <<doc>>]
                    /\ hist' = [hist EXCEPT !.stage = stage]
                    /\ UNCHANGED response
    /\ UNCHANGED <<caches, call, rssFeeds, wpPosts, fetched, store, runs>>

\* adminClient.create: the document is stored, or the call throws
Create ==
    /\ run.pc = "create"
    /\ \E ok \in BOOLEAN :
        LET a == Head(run.todo)
            doc == Head(run.pending)
            h == [hist EXCEPT !.creates = Append(@, a)]
            written == [op |-> "create", by |-> run.handler, gen |-> hist.stage.gen,
                        upstream |-> a.description # NoText \/ a.content # NoText,
                        body |-> doc.htmlContentAr]
        IN  /\ ok \/ mayFail(1)
            /\ faults' = faults + (IF ok THEN 0 ELSE 1)
            /\ IF ok
               THEN /\ store' = Append(store, doc)
                    /\ continueOrReturn([run EXCEPT !.imported = @ + 1],
                                        [h EXCEPT !.lastWrite = written])
               ELSE /\ store' = store
                    /\ continueOrReturn([run EXCEPT !.failed = @ + 1, !.errors = @ + 1], h)
    /\ UNCHANGED <<caches, call, rssFeeds, wpPosts, fetched, runs>>

---------------------------------------------------------------------------
(* api/admin/reset-and-sync: POST *)

\* STEP 2 of reset-and-sync: a valid date within the last 30 days
RECURSIVE filterRecent(_, _)
filterRecent(articles, now) ==
    IF articles = <<>> THEN <<>>
    ELSE (IF ~invalidDate(Head(articles).publishedAt)
             /\ parseDate(Head(articles).publishedAt) >= now - ResetWindow
          THEN <<Head(articles)>> ELSE <<>>)
         \o filterRecent(Tail(articles), now)

\* every article is deleted, the feeds are fetched and deduplicated, and
\* the loop starts over all articles of the last 30 days
ResetStart ==
    /\ run.handler = "idle"
    /\ runs < MaxRuns
    /\ runs' = runs + 1
    /\ \E outcome \in [1..NumFeeds -> FeedOutcomes] :
        LET rssArticles == fetchRSSFeed(rssFeeds, outcome, Now)
            deduplicated == dedupInFeed(rssArticles, {}, {})
            newArticles == filterRecent(deduplicated, Now)
            feedsOk == \A i \in 1..NumFeeds : outcome[i] = "ok"
            nFailed == failures({i \in 1..NumFeeds : outcome[i] # "ok"})
            h == [hist EXCEPT !.creates = <<>>, !.storeBefore = 0,
                              !.feedsOk = feedsOk, !.leftover = 0]
            r == [IdleRun EXCEPT !.handler = "reset", !.pc = "stages",
                                 !.todo = newArticles,
                                 !.candidates = Len(newArticles)]
        IN  /\ mayFail(nFailed)
            /\ faults' = faults + nFailed
            /\ store' = <<>>
            /\ IF newArticles = <<>>
               THEN /\ response' = summaryResponse(r)
                    /\ run' = IdleRun
                    /\ hist' = finished(h, summaryOf(r, h))
               ELSE /\ response' = NoResponse
                    /\ run' = r
                    /\ hist' = h
    /\ UNCHANGED <<caches, call, rssFeeds, wpPosts, fetched>>

---------------------------------------------------------------------------
(* api/cron/sync-articles: GET *)

WpOutcomes == {"ok", "network"}

\* the date filter of the cron handlers: an unparseable date is dropped, a
\* date before the minimum is counted as too old
RECURSIVE filterByDate(_)
filterByDate(articles) ==
    IF articles = <<>> THEN [valid |-> <<>>, tooOld |-> 0]
    ELSE LET a == Head(articles)
             r == filterByDate(Tail(articles))
         IN  IF invalidDate(a.publishedAt) THEN r
             ELSE IF parseDate(a.publishedAt) >= MinDateCron
                  THEN [r EXCEPT !.valid = <<a>> \o @]
                  ELSE [r EXCEPT !.tooOld = @ + 1]

\* STEP 3 of the deduplicating cron handlers: slug, source URL or lower-cased
\* title already in the store
isDuplicate(article, existingArticles) ==
    \E i \in DOMAIN existingArticles :
        \/ existingArticles[i].slug = slugify(article.title)
        \/ existingArticles[i].sourceUrl = article.url
        \/ titleKey(existingArticles[i].title) = titleKey(article.title)

RECURSIVE filterDuplicates(_, _)
filterDuplicates(articles, existingArticles) ==
    IF articles = <<>> THEN [new |-> <<>>, duplicates |-> 0]
    ELSE LET a == Head(articles)
             r == filterDuplicates(Tail(articles), existingArticles)
         IN  IF isDuplicate(a, existingArticles)
             THEN [r EXCEPT !.duplicates = @ + 1]
             ELSE [r EXCEPT !.new = <<a>> \o @]

\* what both adapters deliver to a cron handler
allArticles(outcome, wpOutcome) ==
    fetchRSSFeed(rssFeeds, outcome, Now) \o fetchWordPressArticles(wpPosts, wpOutcome, Now)

fetchFailures(outcome, wpOutcome) ==
    failures({i \in 1..NumFeeds : outcome[i] # "ok"})
    + (IF wpOutcome = "ok" THEN 0 ELSE 1)

allFetched(outcome, wpOutcome) ==
    wpOutcome = "ok" /\ \A i \in 1..NumFeeds : outcome[i] = "ok"

\* the handler that imports every recent article: no duplicate detection
CronStart ==
    /\ run.handler = "idle"
    /\ runs < MaxRuns
    /\ runs' = runs + 1
    /\ \E outcome \in [1..NumFeeds -> FeedOutcomes], wpOutcome \in WpOutcomes :
        LET f == filterByDate(allArticles(outcome, wpOutcome))
            articlesToProcess == SubSeq(f.valid, 1, Min(PerRunCap, Len(f.valid)))
            feedsOk == allFetched(outcome, wpOutcome)
            nFailed == fetchFailures(outcome, wpOutcome)
            h == started(hist, feedsOk, Len(f.valid) - Len(articlesToProcess))
        IN  /\ mayFail(nFailed)
            /\ faults' = faults + nFailed
            /\ IF f.valid = <<>>
               THEN /\ response' = [NoResponse EXCEPT
                                       !.status = 200,
                                       !.fields = {"success", "message", "imported",
                                                   "failed", "skipped", "timestamp"},
                                       !.skipped = f.tooOld]
                    /\ run' = IdleRun
                    /\ hist' = finished(h, [NoRun EXCEPT !.handler = "cron",
                                                         !.feedsOk = feedsOk])
               ELSE /\ response' = NoResponse
                    /\ run' = [IdleRun EXCEPT !.handler = "cron", !.pc = "stages",
                                             !.todo = articlesToProcess,
                                             !.batchSkipped = f.tooOld,
                                             !.candidates = Len(articlesToProcess)]
                    /\ hist' = h
    /\ UNCHANGED <<caches, call, rssFeeds, wpPosts, fetched, store>>

\* the handlers that check the store for duplicates and import one article
\* per run: "cronDedup" builds basic HTML, "cronLight" stores no HTML
CronDedupStart ==
    /\ run.handler = "idle"
    /\ runs < MaxRuns
    /\ runs' = runs + 1
    /\ \E handler \in {"cronDedup", "cronLight"},
          outcome \in [1..NumFeeds -> FeedOutcomes], wpOutcome \in WpOutcomes,
          storeUp \in BOOLEAN :
        LET f == filterByDate(allArticles(outcome, wpOutcome))
            d == filterDuplicates(f.valid, store)
            articlesToProcess == SubSeq(d.new, 1, Min(CronTargetImports, Len(d.new)))
            feedsOk == allFetched(outcome, wpOutcome)
            nFailed == fetchFailures(outcome, wpOutcome) + (IF storeUp THEN 0 ELSE 1)
            h == started(hist, feedsOk, Len(d.new) - Len(articlesToProcess))
            early == [NoRun EXCEPT !.handler = handler, !.feedsOk = feedsOk,
                                    !.aborted = ~storeUp]
        IN  /\ mayFail(nFailed)
            /\ faults' = faults + nFailed
            /\ IF ~storeUp
               THEN /\ response' = errorResponse
                    /\ run' = IdleRun
                    /\ hist' = finished(h, early)
               ELSE IF d.new = <<>>
               THEN /\ response' = [NoResponse EXCEPT
                                       !.status = 200,
                                       !.fields = {"success", "message", "imported",
                                                   "failed", "skipped", "duplicates",
                                                   "timestamp"},
                                       !.skipped = f.tooOld,
                                       !.duplicates = d.duplicates]
                    /\ run' = IdleRun
                    /\ hist' = finished(h, early)
               ELSE /\ response' = NoResponse
                    /\ run' = [IdleRun EXCEPT !.handler = handler, !.pc = "stages",
                                             !.todo = articlesToProcess,
                                             !.batchSkipped = f.tooOld,
                                             !.duplicates = d.duplicates,
                                             !.candidates = Len(articlesToProcess)]
                    /\ hist' = h
    /\ UNCHANGED <<caches, call, rssFeeds, wpPosts, fetched, store>>

\* <article> wrapper around the paragraphs: never empty
generateBasicHtml(content) == "basic"

\* no scraping, no generation: the feed content, the translated title and
\* description, and basic or no HTML
LightStages ==
    /\ run.pc = "stages"
    /\ run.handler \in {"cronDedup", "cronLight"}
    /\ \E uploadOk \in BOOLEAN, titleOk \in BOOLEAN, descOk \in BOOLEAN :
        LET a == Head(run.todo)
            fullArticleContent == OrElse(a.content, a.description)
            plainText == OrElse(fullArticleContent, extractPlainText(fullArticleContent))
            shouldUploadImage == a.hasImage /\ run.handler = "cronDedup"
                                 /\ a.source \in {"TESLARATI", "Not a Tesla App"}
            asset == shouldUploadImage /\ uploadOk
            titleAr == translatedOr(translateText(titleOk), TRUE)
            descriptionAr == translatedOr(translateText(descOk), a.description # NoText)
            textContent == OrElse(plainText, a.description)
            contentAr == IF run.handler = "cronDedup"
                         THEN OrElse(descriptionAr, a.description)
                         ELSE descriptionAr
            htmlContentAr == IF run.handler = "cronDedup"
                             THEN generateBasicHtml(contentAr)
                             ELSE NoText
            doc == sanityArticle(a, titleAr, descriptionAr, textContent,
                                 OrElse(contentAr, descriptionAr),
                                 OrElse(htmlContentAr, contentAr), asset)
            stage == [NoStage EXCEPT !.uploadOk = uploadOk, !.titleOk = titleOk,
                                     !.descOk = descOk]
            nFailed == failures({c \in {"upload", "title", "desc"} :
                                   \/ c = "upload" /\ ~uploadOk
                                   \/ c = "title" /\ ~titleOk
                                   \/ c = "desc" /\ ~descOk})
        IN  /\ shouldUploadImage \/ uploadOk
            /\ mayFail(nFailed)
            /\ faults' = faults + nFailed
            /\ run' = [run EXCEPT !.pc = "create", !.pending = <<doc>>]
            /\ hist' = [hist EXCEPT !.stage = stage]
    /\ UNCHANGED <<caches, call, rssFeeds, wpPosts, fetched, store, runs, response>>

---------------------------------------------------------------------------
(* api/cron/quick-import: GET *)

\* the articles of the date filter of quick-import
validArticles(articles) == filterByDate(articles).valid

\* the document created without translation or generation
quickArticle(article) ==
    sanityArticle(article, "untranslated",
                  IF article.description # NoText THEN "untranslated" ELSE NoText,
                  OrElse(article.content, article.description),
                  OrElse(article.content, article.description),
                  NoText, FALSE)

\* imports the first recent article as it is; a throwing create gives 500
QuickImport ==
    /\ run.handler = "idle"
    /\ runs < MaxRuns
    /\ runs' = runs + 1
    /\ \E outcome \in [1..NumFeeds -> FeedOutcomes], wpOutcome \in WpOutcomes,
          ok \in BOOLEAN :
        LET valid == validArticles(allArticles(outcome, wpOutcome))
            feedsOk == allFetched(outcome, wpOutcome)
            created == valid # <<>> /\ ok
            nFailed == fetchFailures(outcome, wpOutcome)
                       + (IF valid # <<>> /\ ~ok THEN 1 ELSE 0)
            article == Head(valid)
            doc == quickArticle(article)
            h == started(hist, feedsOk, Max(Len(valid) - 1, 0))
            summary == [NoRun EXCEPT !.handler = "quick", !.feedsOk = feedsOk,
                                      !.imported = IF created THEN 1 ELSE 0,
                                      !.creates = Len(valid),
                                      !.candidates = Min(Len(valid), 1),
                                      !.aborted = valid # <<>> /\ ~ok,
                                      !.leftover = Max(Len(valid) - 1, 0)]
        IN  /\ valid # <<>> \/ ok
            /\ mayFail(nFailed)
            /\ faults' = faults + nFailed
            /\ run' = IdleRun
            /\ IF valid = <<>>
               THEN /\ response' = [NoResponse EXCEPT
                                       !.status = 200,
                                       !.fields = {"success", "message", "imported",
                                                   "timestamp"}]
                    /\ store' = store
                    /\ hist' = finished(h, [summary EXCEPT !.creates = 0])
               ELSE IF ~ok
               THEN /\ response' = errorResponse
                    /\ store' = store
                    /\ hist' = finished([h EXCEPT !.creates = <<article>>],
                                        [summary EXCEPT !.creates = 1])
               ELSE /\ response' = [NoResponse EXCEPT
                                       !.status = 200,
                                       !.fields = {"success", "message", "imported",
                                                   "article", "remaining", "timestamp"},
                                       !.imported = 1]
                    /\ store' = Append(store, doc)
                    /\ hist' = finished(
                           [h EXCEPT !.creates = <<article>>,
                                     !.lastWrite =
                                        [op |-> "create", by |-> "quick",
                                         gen |-> NoGen,
                                         upstream |-> article.description # NoText
                                                      \/ article.content # NoText,
                                         body |-> doc.htmlContentAr]],
                           [summary EXCEPT !.creates = 1])
    /\ UNCHANGED <<caches, call, rssFeeds, wpPosts, fetched>>

---------------------------------------------------------------------------
(* api/cron/enhance-articles: GET *)

\* documents with a null or empty htmlContentAr
needEnhancement == {i \in DOMAIN store : store[i].htmlContentAr = NoText}

\* the newest document without HTML gets the generation output, or its own
\* English content when the generation is rejected
Enhance ==
    /\ run.handler = "idle"
    /\ runs < MaxRuns
    /\ runs' = runs + 1
    /\ \E storeUp \in BOOLEAN, uploadOk \in BOOLEAN, out \in GenOutputs,
          patchOk \in BOOLEAN, countOk \in BOOLEAN :
        LET found == storeUp /\ needEnhancement # {}
            i == CHOOSE k \in needEnhancement : \A m \in needEnhancement : m <= k
            article == store[i]
            upload == article.imageUrl = "original"
            htmlGeneration == generateStyledHtmlFromRSS(out)
            htmlContentAr == htmlGeneration.translatedText
            updated == [article EXCEPT
                           !.htmlContentAr = OrElse(htmlContentAr, article.content),
                           !.image = IF upload /\ uploadOk THEN TRUE ELSE @,
                           !.imageUrl = IF upload /\ uploadOk THEN "cdn" ELSE @]
            nFailed == failures({c \in {"query", "upload", "generate", "patch", "count"} :
                                   \/ c = "query" /\ ~storeUp
                                   \/ c = "upload" /\ ~uploadOk
                                   \/ c = "generate" /\ ~htmlGeneration.success
                                   \/ c = "patch" /\ ~patchOk
                                   \/ c = "count" /\ ~countOk})
            summary == [NoRun EXCEPT !.handler = "enhance"]
        IN  /\ found \/ (out.kind = "html" /\ generationAccepted(out))
            /\ (found /\ upload) \/ uploadOk
            /\ found \/ patchOk
            /\ (found /\ patchOk) \/ countOk
            /\ mayFail(nFailed)
            /\ faults' = faults + nFailed
            /\ run' = IdleRun
            /\ IF ~storeUp
               THEN /\ response' = errorResponse
                    /\ store' = store
                    /\ hist' = finished(hist, [summary EXCEPT !.aborted = TRUE])
               ELSE IF needEnhancement = {}
               THEN /\ response' = [NoResponse EXCEPT
                                       !.status = 200,
                                       !.fields = {"success", "message", "enhanced",
                                                   "timestamp"}]
                    /\ store' = store
                    /\ hist' = finished(hist, summary)
               ELSE IF ~patchOk
               THEN /\ response' = errorResponse
                    /\ store' = store
                    /\ hist' = finished(hist, [summary EXCEPT !.aborted = TRUE])
               ELSE /\ response' = IF countOk
                                   THEN [NoResponse EXCEPT
                                            !.status = 200,
                                            !.fields = {"success", "message",
                                                        "enhanced", "article",
                                                        "remaining", "timestamp"},
                                            !.enhanced = 1]
                                   ELSE errorResponse
                    /\ store' = [store EXCEPT ![i] = updated]
                    /\ hist' = finished(
                           [hist EXCEPT !.lastWrite =
                                           [op |-> "patch", by |-> "enhance",
                                            gen |-> out,
                                            upstream |-> article.content # NoText
                                                         \/ article.description # NoText,
                                            body |-> updated.htmlContentAr]],
                           [summary EXCEPT !.aborted = ~countOk])
    /\ UNCHANGED <<caches, call, rssFeeds, wpPosts, fetched>>

---------------------------------------------------------------------------
(* Upstream payloads *)

rssItem(path, slashes, upper, pubDate, description, encoded, hasImage) ==
    [title |-> [words |-> path, upper |-> upper],
     link |-> [path |-> path, slashes |-> slashes, query |-> 0, upper |-> FALSE],
     guid |-> NoUrl,
     pubDate |-> pubDate,
     description |-> description,
     encoded |-> encoded,
     hasImage |-> hasImage]

wpPost(path, date, dateGmt) ==
    [title |-> [words |-> path, upper |-> FALSE],
     link |-> [path |-> path, slashes |-> 1, query |-> 0, upper |-> FALSE],
     date |-> date,
     dateGmt |-> dateGmt,
     excerpt |-> "text",
     content |-> "text",
     hasImage |-> FALSE]

\* the feed items the orchestrators are run against: a post, the same post
\* rendered with a trailing slash and a capitalised title on a later day, a
\* second post published at the same instant as the first, an old post, and
\* an undated post without description whose content is markup only
SyncRssItems ==
    { rssItem(1, 0, FALSE, rawDate(LastDay - 1), "text", "text", TRUE),
      rssItem(1, 1, TRUE, rawDate(LastDay), "text", NoText, FALSE),
      rssItem(2, 0, FALSE, rawDate(LastDay - 1), "text", NoText, FALSE),
      rssItem(2, 0, FALSE, rawDate(FirstDay), "text", "text", FALSE),
      rssItem(2, 1, FALSE, NoDate, NoText, "tags", FALSE) }

SyncWpPosts ==
    { wpPost(1, rawDate(LastDay - 1), rawDate(LastDay - 1)),
      wpPost(2, rawDate(LastDay - 2), rawDate(LastDay - 1)) }

\* each source carries no item or one item
SyncPayloads(items) == {<<>>} \cup {<<i>> : i \in items}

NoHist ==
    [creates |-> <<>>, storeBefore |-> 0, feedsOk |-> TRUE, leftover |-> 0,
     stage |-> NoStage, lastWrite |-> NoWrite, last |-> NoRun, before |-> NoRun]

NoCall == [name |-> "none", args |-> <<>>, result |-> <<>>]

\* both caches empty; sets: the set calls made so far; calls: calls made so far
NoCaches == [cache |-> {}, translationCache |-> {}, sets |-> {}, calls |-> 0]

NoFetch == [adapter |-> "none", outcome |-> <<>>, articles |-> <<>>]

Init ==
    /\ rssFeeds \in [1..NumFeeds -> SyncPayloads(SyncRssItems)]
    /\ wpPosts \in SyncPayloads(SyncWpPosts)
    /\ fetched = NoFetch
    /\ store = <<>>
    /\ run = IdleRun
    /\ runs = 0
    /\ faults = 0
    /\ response = NoResponse
    /\ hist = NoHist
    /\ call = NoCall
    /\ caches = NoCaches

\* a feed of n articles, each with a link, a title and a publication
\* instant of its own
longFeed(n) ==
    [k \in 1..n |->
        [title |-> [words |-> k, upper |-> FALSE],
         link |-> [path |-> k, slashes |-> 0, query |-> 0, upper |-> FALSE],
         guid |-> NoUrl,
         pubDate |-> rawDate(MinDatePost + k - 1),
         description |-> "text",
         encoded |-> "text",
         hasImage |-> FALSE]]

\* the first feed carries more articles than one run takes; one invocation
\* is made
InitCap ==
    /\ \E n \in (PerRunCap + 1)..(PerRunCap + MaxSurplus) :
           rssFeeds = [i \in 1..NumFeeds |-> IF i = 1 THEN longFeed(n) ELSE <<>>]
    /\ wpPosts = <<>>
    /\ fetched = NoFetch
    /\ store = <<>>
    /\ run = IdleRun
    /\ runs = MaxRuns - 1
    /\ faults = 0
    /\ response = NoResponse
    /\ hist = NoHist
    /\ call = NoCall
    /\ caches = NoCaches

NextCap == PostStart \/ ResetStart \/ Recheck \/ FullStages \/ Create

SpecCap == InitCap /\ [][NextCap]_vars

\* the endpoints that read the RSS feeds only are run without WordPress posts
InitRss == Init /\ wpPosts = <<>>

NextPost == PostStart \/ Recheck \/ FullStages \/ Create

NextSync ==
    \/ PostStart
    \/ CronStart
    \/ CronDedupStart
    \/ Recheck
    \/ FullStages
    \/ LightStages
    \/ Create

SpecPost == InitRss /\ [][NextPost]_vars

SpecSync == Init /\ [][NextSync]_vars

\* another invocation of the handler, running at the same time, creates the
\* article this run is working on: any moment after this run's batch-level
\* query and before its own create
ConcurrentCreate ==
    /\ run.handler = "post"
    /\ run.pc \in {"check", "stages", "create"}
    /\ LET a == Head(run.todo)
           textContent == OrElse(extractPlainText(OrElse(a.content, a.description)),
                                 a.description)
       IN  /\ \A i \in DOMAIN store : store[i].rssGuid # naturalId(a)
           /\ store' = Append(store,
                   sanityArticle(a, "translated",
                                 IF a.description # NoText THEN "translated" ELSE NoText,
                                 textContent, "generatedText", "generated", FALSE))
    /\ UNCHANGED <<caches, call, rssFeeds, wpPosts, fetched, run, runs, faults, response,
                   hist>>

NextRace == NextPost \/ ConcurrentCreate

SpecRace == InitRss /\ [][NextRace]_vars

\* the two endpoints that create articles from the RSS feeds alone or
\* without enrichment
NextImport == NextPost \/ QuickImport

\* an item that carries a title, a link and a date, and no text at all
bareItem == rssItem(1, 0, FALSE, rawDate(LastDay), NoText, NoText, FALSE)

\* quick imports followed by enhancement runs, over feeds that may carry an
\* item without text
InitEnhance ==
    /\ rssFeeds \in [1..NumFeeds -> SyncPayloads(SyncRssItems \cup {bareItem})]
    /\ wpPosts = <<>>
    /\ fetched = NoFetch
    /\ store = <<>>
    /\ run = IdleRun
    /\ runs = 0
    /\ faults = 0
    /\ response = NoResponse
    /\ hist = NoHist
    /\ call = NoCall
    /\ caches = NoCaches

SpecEnhance == InitEnhance /\ [][QuickImport \/ Enhance]_vars

\* the quick-import endpoint called again and again
SpecQuick == Init /\ [][QuickImport]_vars

SpecImport == InitRss /\ [][NextImport]_vars

\* every endpoint that writes article bodies
Next == NextSync \/ QuickImport \/ Enhance

Spec == Init /\ [][Next]_vars

---------------------------------------------------------------------------
(* The adapters on their own *)

WpAdapterOutcomes == {"ok", "network", "http", "notArray"}

\* one item per raw link; the feed gives no <guid>, so the link is the GUID
AdapterRssItems ==
    { [title |-> [words |-> u.path, upper |-> FALSE], link |-> u, guid |-> NoUrl,
       pubDate |-> rawDate(LastDay), description |-> "text", encoded |-> NoText,
       hasImage |-> FALSE] : u \in Url }

\* posts with and without a rendered title
AdapterWpPosts ==
    { [title |-> IF titled THEN [words |-> path, upper |-> FALSE] ELSE NoTitle,
       link |-> [path |-> path, slashes |-> slashes, query |-> 0, upper |-> FALSE],
       date |-> rawDate(LastDay), dateGmt |-> rawDate(LastDay),
       excerpt |-> "text", content |-> "text", hasImage |-> FALSE] :
      path \in 1..NumPaths, slashes \in 0..MaxSlashes, titled \in BOOLEAN }

InitAdapter ==
    /\ \/ /\ rssFeeds \in [1..NumFeeds -> SyncPayloads(AdapterRssItems)]
          /\ wpPosts = <<>>
       \/ /\ rssFeeds = [i \in 1..NumFeeds |-> <<>>]
          /\ wpPosts \in SeqUpTo(AdapterWpPosts, MaxWpPosts)
    /\ fetched = NoFetch
    /\ store = <<>>
    /\ run = IdleRun
    /\ runs = 0
    /\ faults = 0
    /\ response = NoResponse
    /\ hist = NoHist
    /\ call = NoCall
    /\ caches = NoCaches

\* fetchRSSFeed(): every configured feed in turn, whatever becomes of each
FetchRss ==
    /\ \E outcome \in [1..NumFeeds -> FeedOutcomes] :
        fetched' = [adapter |-> "rss", outcome |-> outcome,
                    articles |-> fetchRSSFeed(rssFeeds, outcome, Now)]
    /\ UNCHANGED <<caches, call, rssFeeds, wpPosts, store, run, runs, faults, response, hist>>

\* fetchWordPressArticles(): the one configured source
FetchWp ==
    /\ \E outcome \in WpAdapterOutcomes :
        fetched' = [adapter |-> "wp", outcome |-> <<outcome>>,
                    articles |-> fetchWordPressArticles(wpPosts, outcome, Now)]
    /\ UNCHANGED <<caches, call, rssFeeds, wpPosts, store, run, runs, faults, response, hist>>

NextAdapter == FetchRss \/ FetchWp

SpecAdapter == InitAdapter /\ [][NextAdapter]_vars

---------------------------------------------------------------------------
(* The adapters over well-formed and malformed items *)

\* the k-th <item> of a feed: with or without a <title>, its <pubDate>
\* parseable, unparseable or missing
parserItem(k, pubDate, titled) ==
    [rssItem(k, 0, FALSE, pubDate, "text", NoText, FALSE)
        EXCEPT !.title = IF titled THEN @ ELSE NoTitle]

ParserDates == {rawDate(LastDay), BadDate, NoDate}

\* the feeds of n items
parserFeeds(n) ==
    { [k \in 1..n |-> parserItem(k, f[k][1], f[k][2])] :
        f \in [1..n -> ParserDates \X BOOLEAN] }

\* the k-th post of a WordPress response: with or without title.rendered;
\* date is the site's wall clock (here a day behind GMT, or GMT itself),
\* date_gmt the same instant in GMT
parserPost(k, date, titled) ==
    [wpPost(k, date, rawDate(LastDay)) EXCEPT !.title = IF titled THEN @ ELSE NoTitle]

ParserPostDates == {rawDate(LastDay), rawDate(LastDay - 1), NoDate}

parserPosts(n) ==
    { [k \in 1..n |-> parserPost(k, f[k][1], f[k][2])] :
        f \in [1..n -> ParserPostDates \X BOOLEAN] }

InitParse ==
    /\ \/ /\ rssFeeds \in [1..NumFeeds -> UNION {parserFeeds(n) : n \in 0..MaxItems}]
          /\ \A i \in 2..NumFeeds : Len(rssFeeds[i]) <= 1
          /\ wpPosts = <<>>
       \/ /\ rssFeeds = [i \in 1..NumFeeds |-> <<>>]
          /\ wpPosts \in UNION {parserPosts(n) : n \in 1..MaxWpPosts}
    /\ fetched = NoFetch
    /\ store = <<>>
    /\ run = IdleRun
    /\ runs = 0
    /\ faults = 0
    /\ response = NoResponse
    /\ hist = NoHist
    /\ call = NoCall
    /\ caches = NoCaches

SpecParse == InitParse /\ [][NextAdapter]_vars

---------------------------------------------------------------------------
(* lib/sanity-image-upload: rewriting image URLs in the generated body *)

\* image URLs as sequences of parts: "u" alone is a prefix of "u","v"
\* (an image and a sized variant of it)
ImageUrls == {<<"u">>, <<"u", "v">>, <<"v">>}

\* encodeURIComponent: every part of a URL holds a reserved character
encodeURIComponent(url) ==
    [i \in DOMAIN url |-> IF url[i] = "u" THEN "%u" ELSE "%v"]

\* an attribute holding exactly the value: name="value"
attribute(name, value) == <<name>> \o value \o <<"q">>

\* pieces of a generated body: text, a bare URL, a URL in src or href, an
\* encoded URL in src
HtmlFragments ==
    {<<"t">>} \cup
    UNION {{url, attribute("src", url), attribute("href", url),
            attribute("src", encodeURIComponent(url))} : url \in ImageUrls}

RECURSIVE flatten(_)
flatten(fragments) ==
    IF fragments = <<>> THEN <<>>
    ELSE Head(fragments) \o flatten(Tail(fragments))

\* asset._id of the uploaded image
assetId(imageUrl) ==
    IF imageUrl = <<"u">> THEN "image-1"
    ELSE IF imageUrl = <<"v">> THEN "image-2" ELSE "image-3"

\* an upload that reports an asset whatever happened
uploadUnchecked(imageUrl, ok) ==
    [url |-> imageUrl, sanityAssetId |-> assetId(imageUrl)]

uploadImageToSanity(imageUrl, ok) ==
    [url |-> imageUrl, sanityAssetId |-> IF ok THEN assetId(imageUrl) ELSE "null"]

\* original URL -> asset id, in upload order, for the uploads that succeeded
RECURSIVE uploadImagesToSanity(_, _)
uploadImagesToSanity(imageUrls, ok) ==
    IF imageUrls = <<>> THEN <<>>
    ELSE LET result == uploadImageToSanity(Head(imageUrls), Head(ok))
         IN  (IF result.sanityAssetId # "null" THEN <<result>> ELSE <<>>)
             \o uploadImagesToSanity(Tail(imageUrls), Tail(ok))

\* the CDN URL of an asset
urlFor(sanityAssetId) == <<"cdn", sanityAssetId>>

\* html.replace(pattern, replacement) with a global pattern: every
\* non-overlapping match, left to right
RECURSIVE replacePattern(_, _, _)
replacePattern(html, pattern, replacement) ==
    IF Len(html) < Len(pattern) THEN html
    ELSE IF SubSeq(html, 1, Len(pattern)) = pattern
         THEN replacement
              \o replacePattern(SubSeq(html, Len(pattern) + 1, Len(html)),
                                pattern, replacement)
         ELSE <<Head(html)>> \o replacePattern(Tail(html), pattern, replacement)

\* a rewrite that leaves URLs outside attributes alone
keepStandalone(html, originalUrl, sanityUrl) == html

\* pattern 4: the URL wherever it stands
replaceStandalone(html, originalUrl, sanityUrl) ==
    replacePattern(html, originalUrl, sanityUrl)

\* the four patterns for one entry of the map, in order
replaceOne(html, entry) ==
    LET sanityUrl == urlFor(entry.sanityAssetId)
        src == replacePattern(html, attribute("src", entry.url),
                              attribute("src", sanityUrl))
        srcEncoded == replacePattern(src,
                                     attribute("src", encodeURIComponent(entry.url)),
                                     attribute("src", sanityUrl))
        href == replacePattern(srcEncoded, attribute("href", entry.url),
                               attribute("href", sanityUrl))
    IN  replaceStandalone(href, entry.url, sanityUrl)

RECURSIVE replaceImageUrlsInHtml(_, _)
replaceImageUrlsInHtml(html, imageMap) ==
    IF html = <<>> \/ imageMap = <<>> THEN html
    ELSE replaceImageUrlsInHtml(replaceOne(html, Head(imageMap)), Tail(imageMap))

\* uniqueImages: the distinct images of an article
uniqueImageLists ==
    {s \in SeqUpTo(ImageUrls, MaxImages) :
        \A i, j \in DOMAIN s : i # j => s[i] # s[j]}

\* the handlers' step between generation and create: upload the content
\* images, then rewrite the generated body when any upload succeeded
ReplaceImageUrls ==
    /\ call = NoCall
    /\ \E fragments \in SeqUpTo(HtmlFragments, MaxFragments),
          uniqueImages \in uniqueImageLists :
        \E ok \in [DOMAIN uniqueImages -> BOOLEAN] :
            LET htmlContentAr == flatten(fragments)
                imageMap == uploadImagesToSanity(uniqueImages, ok)
            IN  call' = [name |-> "replaceImageUrlsInHtml",
                         args |-> [html |-> htmlContentAr, imageMap |-> imageMap],
                         result |-> IF Len(imageMap) > 0
                                    THEN replaceImageUrlsInHtml(htmlContentAr, imageMap)
                                    ELSE htmlContentAr]
    /\ UNCHANGED <<caches, rssFeeds, wpPosts, fetched, store, run, runs, faults,
                   response, hist>>

\* uploadedMap.set(key, value): a Map keeps one entry per key, at the place
\* of its first insertion
mapSet(uploadedMap, entry) ==
    IF \E i \in DOMAIN uploadedMap : uploadedMap[i].url = entry.url
    THEN [i \in DOMAIN uploadedMap |->
             IF uploadedMap[i].url = entry.url THEN entry ELSE uploadedMap[i]]
    ELSE Append(uploadedMap, entry)

\* uploadImagesToSanity(imageUrls) is called: nothing uploaded yet
UploadImages ==
    /\ call = NoCall
    /\ \E imageUrls \in SeqUpTo(ImageUrls, MaxImages) :
        call' = [name |-> "uploadImagesToSanity",
                 args |-> imageUrls,
                 result |-> [uploadedMap |-> <<>>, attempts |-> <<>>, oks |-> <<>>,
                             returned |-> FALSE]]
    /\ UNCHANGED <<caches, rssFeeds, wpPosts, fetched, store, run, runs, faults,
                   response, hist>>

\* the loop reaches the next URL: uploadImageToSanity(imageUrl) is started
\* once the upload before it has settled
UploadStart ==
    /\ call.name = "uploadImagesToSanity"
    /\ ~call.result.returned
    /\ Len(call.result.attempts) = Len(call.result.oks)
    /\ Len(call.result.attempts) < Len(call.args)
    /\ call' = [call EXCEPT !.result.attempts =
                    Append(@, call.args[Len(call.result.attempts) + 1])]
    /\ UNCHANGED <<caches, rssFeeds, wpPosts, fetched, store, run, runs, faults,
                   response, hist>>

\* the awaited upload settles: an asset id, or null after a caught error
UploadSettle ==
    /\ call.name = "uploadImagesToSanity"
    /\ Len(call.result.attempts) = Len(call.result.oks) + 1
    /\ \E ok \in BOOLEAN :
        LET imageUrl == call.result.attempts[Len(call.result.attempts)]
            result == uploadImageToSanity(imageUrl, ok)
        IN  call' = [call EXCEPT
                        !.result.oks = Append(@, ok),
                        !.result.uploadedMap =
                            IF result.sanityAssetId # "null" THEN mapSet(@, result)
                            ELSE @]
    /\ UNCHANGED <<caches, rssFeeds, wpPosts, fetched, store, run, runs, faults,
                   response, hist>>

\* return uploadedMap, after the last URL
UploadReturn ==
    /\ call.name = "uploadImagesToSanity"
    /\ ~call.result.returned
    /\ Len(call.result.oks) = Len(call.args)
    /\ call' = [call EXCEPT !.result.returned = TRUE]
    /\ UNCHANGED <<caches, rssFeeds, wpPosts, fetched, store, run, runs, faults,
                   response, hist>>

NextUpload == UploadImages \/ UploadStart \/ UploadSettle \/ UploadReturn

---------------------------------------------------------------------------
(* lib/translation-cache and the cache of lib/translator *)

\* a text by what the cache key keeps of it: the head is what lies within
\* the first 100 base64 characters of "source:target:text", the tail is
\* what lies beyond: a short text, and two long texts that begin alike
Texts ==
    {[head |-> "a", tail |-> ""], [head |-> "b", tail |-> "x"],
     [head |-> "b", tail |-> "y"]}

LangPairs == {<<"en", "ar">>, <<"ar", "en">>}

Translations == {"t1", "t2"}

\* Buffer.from(`${sourceLang}:${targetLang}:${text}`).toString('base64')
\*     .substring(0, 100)
getKey(text, sourceLang, targetLang) == <<sourceLang, targetLang, text.head>>

\* TranslationCache.set(text, sourceLang, targetLang, translatedText)
CacheSet ==
    /\ caches.calls < MaxCacheCalls
    /\ \E text \in Texts, langs \in LangPairs, translatedText \in Translations :
        LET key == getKey(text, langs[1], langs[2])
            entry == [key |-> key, translatedText |-> translatedText]
            made == [text |-> text, sourceLang |-> langs[1], targetLang |-> langs[2],
                     translatedText |-> translatedText]
        IN  /\ caches' = [caches EXCEPT
                              !.cache = {c \in @ : c.key # key} \cup {entry},
                              !.sets = @ \cup {made},
                              !.calls = @ + 1]
            /\ call' = [name |-> "translationCache.set",
                        args |-> [text |-> text, sourceLang |-> langs[1],
                                  targetLang |-> langs[2]],
                        result |-> translatedText]
    /\ UNCHANGED <<rssFeeds, wpPosts, fetched, store, run, runs, faults, response,
                   hist>>

\* TranslationCache.get(text, sourceLang, targetLang): the entry under the
\* key, or null
CacheGet ==
    /\ caches.calls < MaxCacheCalls
    /\ \E text \in Texts, langs \in LangPairs :
        LET key == getKey(text, langs[1], langs[2])
            found == {c \in caches.cache : c.key = key}
        IN  call' = [name |-> "translationCache.get",
                     args |-> [text |-> text, sourceLang |-> langs[1],
                               targetLang |-> langs[2]],
                     result |-> IF found = {} THEN "null"
                                ELSE (CHOOSE c \in found : TRUE).translatedText]
    /\ caches' = [caches EXCEPT !.calls = @ + 1]
    /\ UNCHANGED <<rssFeeds, wpPosts, fetched, store, run, runs, faults, response,
                   hist>>

\* an entry outlives its TTL and is deleted, by get or by the hourly cleanup
CacheExpire ==
    /\ \E c \in caches.cache : caches' = [caches EXCEPT !.cache = @ \ {c}]
    /\ UNCHANGED <<call, rssFeeds, wpPosts, fetched, store, run, runs, faults,
                   response, hist>>

\* translateText(text, targetLang, sourceLang) with its module-level cache:
\* a hit answers at once, otherwise the service is asked and a non-empty
\* answer is stored
TranslateText ==
    /\ caches.calls < MaxCacheCalls
    /\ \E text \in Texts, langs \in LangPairs,
          outcome \in {"ok", "noClient", "error"}, translatedText \in Translations :
        LET cached == {c \in caches.translationCache :
                          /\ c.text = text
                          /\ c.sourceLang = langs[1]
                          /\ c.targetLang = langs[2]}
            args == [text |-> text, sourceLang |-> langs[1], targetLang |-> langs[2]]
            stored == [text |-> text, sourceLang |-> langs[1], targetLang |-> langs[2],
                       translatedText |-> translatedText]
        IN  IF cached # {}
            THEN /\ call' = [name |-> "translateText", args |-> args,
                             result |-> [success |-> TRUE, requested |-> FALSE,
                                         translatedText |->
                                             (CHOOSE c \in cached : TRUE).translatedText]]
                 /\ caches' = [caches EXCEPT !.calls = @ + 1]
            ELSE IF outcome = "ok"
            THEN /\ call' = [name |-> "translateText", args |-> args,
                             result |-> [success |-> TRUE, requested |-> TRUE,
                                         translatedText |-> translatedText]]
                 /\ caches' = [caches EXCEPT !.translationCache = @ \cup {stored},
                                             !.calls = @ + 1]
            ELSE /\ call' = [name |-> "translateText", args |-> args,
                             result |-> [success |-> FALSE,
                                         requested |-> outcome = "error",
                                         translatedText |-> NoText]]
                 /\ caches' = [caches EXCEPT !.calls = @ + 1]
    /\ UNCHANGED <<rssFeeds, wpPosts, fetched, store, run, runs, faults, response,
                   hist>>

NextCache == CacheSet \/ CacheGet \/ CacheExpire \/ TranslateText

---------------------------------------------------------------------------
(* lib/wordpress-fetcher: the featured image of a post *)

\* <img> elements by their URL: one the icon/avatar/logo/watermark
\* heuristic of the other adapters would skip, or a picture
Imgs == {"icon", "photo"}

ImageSizes == {"large", "medium_large", "full"}

\* a post by what extractFeaturedImage reads of it: the embedded featured
\* media (sizes present, source_url), the featured_media id and what the
\* lookup by id answers, the <img> elements of content and excerpt, and
\* whether title.rendered is there
FeaturedPosts ==
    [titled : BOOLEAN, embedded : BOOLEAN, sizes : SUBSET ImageSizes,
     source_url : BOOLEAN, featured_media : BOOLEAN, fetchedMedia : BOOLEAN,
     content : SeqUpTo(Imgs, MaxImages), excerpt : SeqUpTo(Imgs, MaxImages)]

NoImage == [from |-> "null", img |-> "none"]

\* the first <img ... src="..."> of the markup, or null
extractFirstImageFromContent(from, htmlContent) ==
    IF htmlContent = <<>> THEN NoImage
    ELSE [from |-> from, img |-> Head(htmlContent)]

extractFeaturedImage(post) ==
    IF post.embedded /\ ~post.titled THEN NoImage
    ELSE IF post.embedded /\ "large" \in post.sizes
    THEN [from |-> "large", img |-> "photo"]
    ELSE IF post.embedded /\ "medium_large" \in post.sizes
    THEN [from |-> "medium_large", img |-> "photo"]
    ELSE IF post.embedded /\ "full" \in post.sizes
    THEN [from |-> "full", img |-> "photo"]
    ELSE IF post.embedded /\ post.source_url
    THEN [from |-> "source_url", img |-> "photo"]
    ELSE IF post.featured_media /\ post.fetchedMedia
    THEN [from |-> "byId", img |-> "photo"]
    ELSE IF post.content # <<>>
    THEN extractFirstImageFromContent("content", post.content)
    ELSE IF post.excerpt # <<>>
    THEN extractFirstImageFromContent("excerpt", post.excerpt)
    ELSE NoImage

\* extractFeaturedImage(post, source) against every post
ExtractFeaturedImage ==
    /\ call = NoCall
    /\ \E post \in FeaturedPosts :
        call' = [name |-> "extractFeaturedImage", args |-> post,
                 result |-> extractFeaturedImage(post)]
    /\ UNCHANGED <<caches, rssFeeds, wpPosts, fetched, store, run, runs, faults,
                   response, hist>>

\* article.urlToImage when the adapter found no image
NoUrlToImage == <<>>

\* the image steps of the handlers for one article: the main image is
\* uploaded by a call of its own, then all content images by a second call;
\* uploads lists every URL handed to uploadImageToSanity, in order
UploadArticleImages ==
    /\ call = NoCall
    /\ \E urlToImage \in ImageUrls \cup {NoUrlToImage}, uniqueImages \in uniqueImageLists :
        LET originalImageUrl ==
                IF urlToImage # NoUrlToImage THEN urlToImage
                ELSE IF Len(uniqueImages) > 0 THEN uniqueImages[1] ELSE NoUrlToImage
            mainList == IF originalImageUrl # NoUrlToImage THEN <<originalImageUrl>> ELSE <<>>
        IN  \E mainOk \in [DOMAIN mainList -> BOOLEAN],
               ok \in [DOMAIN uniqueImages -> BOOLEAN] :
                call' = [name |-> "uploadArticleImages",
                         args |-> [urlToImage |-> urlToImage,
                                   uniqueImages |-> uniqueImages],
                         result |-> [uploads |-> mainList \o uniqueImages,
                                     mainImageMap |->
                                         uploadImagesToSanity(mainList, mainOk),
                                     imageMap |->
                                         uploadImagesToSanity(uniqueImages, ok)]]
    /\ UNCHANGED <<caches, rssFeeds, wpPosts, fetched, store, run, runs, faults,
                   response, hist>>

---------------------------------------------------------------------------
(* api/sync-articles: GET, the comparison of stored and fetched GUIDs *)

\* the strings normalizeGuid is handed: URLs with any number of trailing
\* slashes, a query and upper-case letters, strings that are no URLs, ''
GuidStrings ==
    [path : 1..NumPaths, slashes : 0..(MaxSlashes + 1), query : 0..MaxQuery,
     upper : BOOLEAN] \cup NonUrl \cup {NoUrl}

\* one stored article and one fetched article: the stored rssGuid is what
\* normalizeGuid made of the GUID at import, the handler normalizes it
\* again and compares it with the normalized GUID of the fetched article
CheckNewArticles ==
    /\ call = NoCall
    /\ \E imported \in GuidStrings, fetchedGuid \in GuidStrings :
        LET rssGuid == normalizeGuid(imported)
            existingGuids == {normalizeGuid(rssGuid)} \ {NoUrl}
            guid == normalizeGuid(fetchedGuid)
        IN  call' = [name |-> "checkNewArticles",
                     args |-> [imported |-> imported, fetched |-> fetchedGuid],
                     result |-> [rssGuid |-> rssGuid, guid |-> guid,
                                 isNew |-> guid \notin existingGuids]]
    /\ UNCHANGED <<caches, rssFeeds, wpPosts, fetched, store, run, runs, faults,
                   response, hist>>

---------------------------------------------------------------------------
(* lib/article-scraper, called on its own *)

\* scrapeArticleContent(url) against every page and every fetch outcome
Scrape ==
    /\ call = NoCall
    /\ \E outcome \in FetchOutcomes, page \in Pages :
        call' = [name |-> "scrapeArticleContent",
                 args |-> [outcome |-> outcome, page |-> page],
                 result |-> scrapeArticleContent(outcome, page)]
    /\ UNCHANGED <<caches, rssFeeds, wpPosts, fetched, store, run, runs, faults,
                   response, hist>>

\* a library function called on its own: nothing fetched, nothing stored
InitLib == Init /\ rssFeeds = [i \in 1..NumFeeds |-> <<>>] /\ wpPosts = <<>>

SpecImages == InitLib /\ [][ReplaceImageUrls]_vars

SpecScrape == InitLib /\ [][Scrape]_vars

SpecUpload == InitLib /\ [][NextUpload]_vars

SpecGuid == InitLib /\ [][CheckNewArticles]_vars

SpecArticleImages == InitLib /\ [][UploadArticleImages]_vars

SpecFeatured == InitLib /\ [][ExtractFeaturedImage]_vars

SpecCache == InitLib /\ [][NextCache]_vars

\* generateStyledHtmlFromRSS(...) against every completion
GenerateHtml ==
    /\ call = NoCall
    /\ \E outcome \in CompletionOutcomes, generatedHtml \in Completions :
        call' = [name |-> "generateStyledHtmlFromRSS",
                 args |-> [outcome |-> outcome, generatedHtml |-> generatedHtml],
                 result |-> generateFromCompletion(outcome, generatedHtml)]
    /\ UNCHANGED <<caches, rssFeeds, wpPosts, fetched, store, run, runs, faults,
                   response, hist>>

SpecGenerate == InitLib /\ [][GenerateHtml]_vars

---------------------------------------------------------------------------
(* Duplicate detection against the store *)

\* the three dedup keys: normalised natural ID, trimmed lower-cased title,
\* exact publishedAt
matchesStored(article, doc) ==
    \/ doc.rssGuid = naturalId(article)
    \/ titleKey(doc.title) = titleKey(article.title)
    \/ doc.publishedAt = article.publishedAt

\* the fetched article was in the store when the run started
alreadyStored(article) ==
    \E k \in 1..hist.storeBefore : matchesStored(article, store[k])

\* C1: in a sync run, the store's create is never invoked for a fetched
\* article that matches, on any one of the three dedup keys, an article that
\* was already in the content store.
C1_StoredNeverCreated ==
    \A i \in DOMAIN hist.creates : ~alreadyStored(hist.creates[i])

---------------------------------------------------------------------------
(* Idempotence of the POST handler *)

\* a finished POST run that fetched every feed, was not aborted, failed no
\* candidate and left none beyond the per-run cap
cleanRun(s) ==
    /\ s.handler = "post"
    /\ s.feedsOk
    /\ ~s.aborted
    /\ s.failed = 0
    /\ s.leftover = 0

---------------------------------------------------------------------------
(* The structural floor of generated bodies *)

\* the generation output is below the floor of paragraphs or headings
belowFloor(out) ==
    out.kind = "html" /\ (out.p < MinParagraphs \/ out.h < MinHeadings)

\* C3: no create or patch of an article's translated HTML body follows a
\* generation output with fewer than 5 paragraphs or fewer than 2 section
\* headings.
C3_NoWriteBelowFloor ==
    hist.lastWrite.op # "none" => ~belowFloor(hist.lastWrite.gen)

---------------------------------------------------------------------------
(* Bodies of the stored articles *)

---------------------------------------------------------------------------
(* The adapters' batches *)

\* the feeds whose request succeeded in the last fetchRSSFeed()
fetchedFeeds == {i \in 1..NumFeeds : fetched.outcome[i] = "ok"}

\* the links the fetched feeds carry
fetchedLinks == UNION {{rssFeeds[i][k].link : k \in DOMAIN rssFeeds[i]} : i \in fetchedFeeds}

\* both feeds were fetched and carry an item with the same link
sameLinkInBothFeeds ==
    /\ fetched.adapter = "rss"
    /\ fetchedFeeds = 1..NumFeeds
    /\ \A i \in 1..NumFeeds : Len(rssFeeds[i]) = 1
    /\ \A i \in 1..NumFeeds : rssFeeds[i][1].link = rssFeeds[1][1].link

C10_FailedSourceIsolated ==
    /\ fetched.adapter = "rss" =>
           /\ \A k \in DOMAIN fetched.articles :
                  \E i \in fetchedFeeds :
                      /\ fetched.articles[k].source = feedSourceName(i)
                      /\ \E m \in DOMAIN rssFeeds[i] :
                             rssFeeds[i][m].link = fetched.articles[k].url
           /\ \A u \in fetchedLinks :
                  \E k \in DOMAIN fetched.articles : fetched.articles[k].url = u
    /\ (fetched.adapter = "wp" /\ fetched.outcome # <<"ok">>) =>
           fetched.articles = <<>>

\* one feed failed, it carried an item, and the other feed's article is
\* returned
C10_Witness ==
    /\ fetched.adapter = "rss"
    /\ \E i \in 1..NumFeeds :
           /\ fetched.outcome[i] # "ok"
           /\ rssFeeds[i] # <<>>
    /\ fetched.articles # <<>>

---------------------------------------------------------------------------
(* Duplicates within one run *)

\* C6: within one sync run, create is never invoked for two fetched articles
\* that share a normalised natural ID or a normalised title.
C6_NoTwinCreatedInRun ==
    \A i, j \in DOMAIN hist.creates :
        i # j =>
            /\ naturalId(hist.creates[i]) # naturalId(hist.creates[j])
            /\ titleKey(hist.creates[i].title) # titleKey(hist.creates[j].title)

---------------------------------------------------------------------------
(* Failures inside the POST handler *)

\* the generation call failed or its output was rejected
rejected(out) == out.kind = "error" \/ belowFloor(out)

\* the counts of the run, in progress or just returned
failedSoFar == IF run.handler = "idle" THEN response.failed ELSE run.failed
errorsSoFar == IF run.handler = "idle" THEN response.errors ELSE run.errors
importedSoFar == IF run.handler = "idle" THEN response.imported ELSE run.imported

---------------------------------------------------------------------------
(* Malformed items and dates in the adapters *)

\* the items of the feeds that the article may have been parsed from
sourceItems(a) ==
    {rssFeeds[i][k] : <<i, k>> \in
        {p \in (1..NumFeeds) \X (1..MaxItems + 1) :
            /\ p[2] \in DOMAIN rssFeeds[p[1]]
            /\ feedSourceName(p[1]) = a.source
            /\ rssFeeds[p[1]][p[2]].link = a.url}}

wellFormed(item) == item.title # NoTitle /\ item.link # NoUrl

undated(item) == ~item.pubDate.given \/ ~item.pubDate.valid

\* nothing in the item can fail its conversion
intact(item) == wellFormed(item) /\ (item.pubDate.given => item.pubDate.valid)

\* the feed is "Not a Tesla App" and carries a pubDate that cannot be parsed
abandoned(i) ==
    /\ feedSourceName(i) = "Not a Tesla App"
    /\ \E k \in DOMAIN rssFeeds[i] :
           rssFeeds[i][k].pubDate.given /\ ~rssFeeds[i][k].pubDate.valid

returnedUrls == {fetched.articles[m].url : m \in DOMAIN fetched.articles}

\* C11: a malformed item (an RSS item without title or link or with an
\* unparseable date, a WordPress post without title.rendered) is dropped
\* alone: every well-formed item of a payload that was fetched is returned
\* by the adapter.
C11_MalformedItemDroppedAlone ==
    /\ fetched.adapter = "rss" =>
           \A i \in fetchedFeeds : \A k \in DOMAIN rssFeeds[i] :
               intact(rssFeeds[i][k]) => rssFeeds[i][k].link \in returnedUrls
    /\ (fetched.adapter = "wp" /\ fetched.outcome = <<"ok">>) =>
           \A k \in DOMAIN wpPosts :
               wpPosts[k].title # NoTitle => wpPosts[k].link \in returnedUrls

C17_PublishedAtIsUtcInstant ==
    /\ fetched.adapter = "rss" =>
           \A m \in DOMAIN fetched.articles :
               \A item \in sourceItems(fetched.articles[m]) :
                   ~undated(item) =>
                       fetched.articles[m].publishedAt =
                           [wall |-> item.pubDate.day, z |-> TRUE]
    /\ fetched.adapter = "wp" =>
           \A m \in DOMAIN fetched.articles :
               parseDate(fetched.articles[m].publishedAt) = wpPosts[m].dateGmt.day

---------------------------------------------------------------------------
(* Image URLs in the persisted body *)

\* the pattern occurs in the text
occurs(pattern, text) ==
    \E i \in 1..(Len(text) - Len(pattern) + 1) :
        SubSeq(text, i, i + Len(pattern) - 1) = pattern

---------------------------------------------------------------------------
(* The publish-instant key *)

\* C14: of two articles with different titles and different natural IDs
\* that carry the same publishedAt at most one is ever created.
C14_OnePerPublishInstant ==
    \A i, j \in DOMAIN store :
        (/\ i # j
         /\ titleKey(store[i].title) # titleKey(store[j].title)
         /\ store[i].rssGuid # store[j].rssGuid)
            => store[i].publishedAt # store[j].publishedAt

---------------------------------------------------------------------------
(* The scraper's extraction strategies *)

scraped == call.name = "scrapeArticleContent" /\ call.args.outcome = "ok"

\* some container pattern matches more than the container minimum
containerTaken(page) ==
    \E k \in 1..NumContainerPatterns :
        page.containers[k].length > MinContainerLength

\* no <article>, no container, no <main>, and a stripped <body> of fewer
\* characters than the minimum
bareBody(page) ==
    /\ ~page.article.present
    /\ ~containerTaken(page)
    /\ ~page.main.present
    /\ page.body.present
    /\ page.body.length < MinContentLength

strategies(page) ==
    << [from |-> "article", length |-> page.article.length],
       [from |-> "container",
        length |-> IF containerTaken(page) THEN MinContainerLength + 1 ELSE 0],
       [from |-> "main", length |-> page.main.length],
       [from |-> "body", length |-> page.body.length] >>

\* the strategy matches the page at all
matching(page, k) ==
    \/ k = 1 /\ page.article.present
    \/ k = 2 /\ containerTaken(page)
    \/ k = 3 /\ page.main.present
    \/ k = 4 /\ page.body.present

\* C19 as stated: a strategy that yields fewer than 100 characters is passed
\* over, and the first strategy in the order <article>, container, <main>,
\* <body> that yields at least 100 characters supplies the content.
C19_FirstSubstantialSupplies ==
    scraped =>
        \A k \in 1..4 :
            (/\ strategies(call.args.page)[k].length >= MinContentLength
             /\ \A j \in 1..(k - 1) :
                    strategies(call.args.page)[j].length < MinContentLength)
                => /\ call.result.success
                   /\ call.result.from = strategies(call.args.page)[k].from

\* C19 (amended): the first strategy in that order that matches the page
\* supplies the content whatever its length; when it yields fewer than 100
\* characters (or none matches) no later strategy is tried: the first ten
\* <p> elements of the page supply the content when they reach 100
\* characters, and otherwise the scrape fails.
C19_FirstMatchSupplies ==
    scraped =>
        LET page == call.args.page
            none == \A k \in 1..4 : ~matching(page, k)
            first == CHOOSE k \in 1..4 :
                         matching(page, k) /\ \A j \in 1..(k - 1) : ~matching(page, j)
        IN  IF ~none /\ strategies(page)[first].length >= MinContentLength
            THEN /\ call.result.success
                 /\ call.result.from = strategies(page)[first].from
            ELSE IF page.paragraphs.length >= MinContentLength
            THEN call.result.success /\ call.result.from = "paragraphs"
            ELSE ~call.result.success /\ call.result.error = "noContent"

\* a short <article> kept a long <main> from being used
C19_Witness ==
    /\ scraped
    /\ call.args.page.article.present
    /\ call.args.page.article.length < MinContentLength
    /\ call.args.page.main.length >= MinContentLength
    /\ ~call.result.success

---------------------------------------------------------------------------
(* Validation and cleanup of the generated body *)

\* C16: generateStyledHtmlFromRSS returns failure whenever the cleaned
\* output has fewer than 5 paragraphs or fewer than 2 headings, and returns
\* success with every class and style attribute removed whenever it has at
\* least 5 paragraphs and at least 2 headings.
C16_FloorAndCleanAttributes ==
    (call.name = "generateStyledHtmlFromRSS" /\ call.args.outcome = "ok") =>
        LET generatedHtml == call.args.generatedHtml
        IN  IF generatedHtml.p < MinParagraphs \/ generatedHtml.h < MinHeadings
            THEN ~call.result.success
            ELSE /\ call.result.success
                 /\ call.result.translatedText.classes = 0
                 /\ call.result.translatedText.styles = 0
                 /\ call.result.translatedText.bare = 0

---------------------------------------------------------------------------
(* Concurrent runs *)

\* C18: when a concurrent run creates the article after this run's batch
\* query and before this run's create for it, this run skips the article:
\* its create is never invoked for an article whose natural ID is already in
\* the store.
C18_SkipsConcurrentlyCreated ==
    [][ (Len(hist'.creates) = Len(hist.creates) + 1 /\ run.handler = "post") =>
            \A i \in DOMAIN store : store[i].rssGuid # naturalId(Head(run.todo)) ]_vars

---------------------------------------------------------------------------
(* Scrape failures inside the POST handler *)

\* C20: a failed scrape (network error, non-2xx response, no extractable
\* content) comes back as success: false with an error reason, and the POST
\* handler goes on with the article on the adapter's content or description:
\* unless the generation is rejected, the article reaches the create call
\* with the failure counters untouched and the adapter's text as its content.
C20_ScrapeFailureFallsBack ==
    [][ (run.pc = "stages" /\ run.handler = "post" /\ run' # run
         /\ ~hist'.stage.scrapeOk) =>
            LET a == Head(run.todo)
                gen == hist'.stage.gen
            IN  /\ hist'.stage.scrapeError \in {"network", "http", "noContent"}
                /\ (gen = NoGen \/ generationAccepted(gen)) =>
                       /\ run'.pc = "create"
                       /\ run'.failed = run.failed
                       /\ run'.errors = run.errors
                       /\ Head(run'.pending).content =
                              IF a.content = "text" THEN "text" ELSE a.description ]_vars

\* an article whose page answered with a non-2xx status waits for its create
\* call with the adapter's text and a generated body, nothing counted as failed
C20_Witness ==
    /\ run.handler = "post"
    /\ run.pc = "create"
    /\ ~hist.stage.scrapeOk
    /\ hist.stage.scrapeError = "http"
    /\ hist.stage.gen # NoGen
    /\ run.failed = 0
    /\ Head(run.pending).content = "text"
    /\ Head(run.pending).htmlContentAr = "generated"

---------------------------------------------------------------------------
(* Uploading the images of an article *)

\* C21: uploadImagesToSanity attempts every URL of its input in input order,
\* one at a time; a failed upload neither throws nor stops the later ones,
\* and the keys of the returned map are exactly the URLs whose upload
\* succeeded.
C21_SequentialUploadsExactKeys ==
    call.name = "uploadImagesToSanity" =>
        LET r == call.result
            imageUrls == call.args
        IN  /\ Len(r.attempts) - Len(r.oks) \in {0, 1}
            /\ r.attempts = SubSeq(imageUrls, 1, Len(r.attempts))
            /\ r.returned =>
                   /\ r.attempts = imageUrls
                   /\ Len(r.oks) = Len(imageUrls)
                   /\ {r.uploadedMap[i].url : i \in DOMAIN r.uploadedMap}
                          = {imageUrls[i] : i \in {j \in DOMAIN imageUrls : r.oks[j]}}

\* the first upload failed, the second was still made and is the only key
C21_Witness ==
    /\ call.name = "uploadImagesToSanity"
    /\ call.result.returned
    /\ Len(call.args) = 2
    /\ call.result.oks = <<FALSE, TRUE>>
    /\ Len(call.result.uploadedMap) = 1
    /\ call.result.uploadedMap[1].url = call.args[2]

---------------------------------------------------------------------------
(* Image URLs without a mapping *)

\* C22: the rewrite changes only URLs that are keys of the map: an image URL
\* in src or href that has no mapping, whatever the keys of the map (a key
\* that is a proper prefix of it included), stands unchanged in the output,
\* and with an empty map the HTML is returned as it was.
C22_UnmappedUrlsKept ==
    call.name = "replaceImageUrlsInHtml" =>
        LET html == call.args.html
            imageMap == call.args.imageMap
            keys == {imageMap[i].url : i \in DOMAIN imageMap}
        IN  /\ imageMap = <<>> => call.result = html
            /\ \A url \in ImageUrls \ keys : \A name \in {"src", "href"} :
                   occurs(attribute(name, url), html)
                       => occurs(attribute(name, url), call.result)

---------------------------------------------------------------------------
(* The translation caches *)

\* C23: a cache lookup returns a stored translation only when text, source
\* language and target language all equal those of a set call that stored
\* that translation, so two distinct texts never share an entry; and a
\* successful translateText followed by the same call returns the same text
\* without asking the service.
C23_ExactKeyAndRepeatFromCache ==
    [][ /\ (call'.name = "translationCache.get" /\ call'.result # "null") =>
              \E made \in caches.sets :
                  /\ made.text = call'.args.text
                  /\ made.sourceLang = call'.args.sourceLang
                  /\ made.targetLang = call'.args.targetLang
                  /\ made.translatedText = call'.result
        /\ (/\ call.name = "translateText" /\ call.result.success
            /\ call'.name = "translateText" /\ call'.args = call.args) =>
              /\ call'.result.success
              /\ call'.result.translatedText = call.result.translatedText
              /\ ~call'.result.requested ]_vars

---------------------------------------------------------------------------
(* The featured image of a WordPress post *)

\* the first <img> of the markup that the heuristic does not exclude
RECURSIVE firstUsable(_, _)
firstUsable(from, htmlContent) ==
    IF htmlContent = <<>> THEN NoImage
    ELSE IF Head(htmlContent) # "icon" THEN [from |-> from, img |-> Head(htmlContent)]
    ELSE firstUsable(from, Tail(htmlContent))

\* C24: extractFeaturedImage returns the first available candidate in the
\* order embedded large, medium_large, full, embedded source_url, lookup by
\* id, first usable <img> of the content, first usable <img> of the
\* excerpt; an <img> matching the icon/avatar/logo/watermark heuristic is
\* never usable and never returned.
C24_FirstUsableCandidate ==
    call.name = "extractFeaturedImage" =>
        LET post == call.args
            fromContent == firstUsable("content", post.content)
            fromExcerpt == firstUsable("excerpt", post.excerpt)
            expected ==
                IF post.embedded /\ "large" \in post.sizes
                THEN [from |-> "large", img |-> "photo"]
                ELSE IF post.embedded /\ "medium_large" \in post.sizes
                THEN [from |-> "medium_large", img |-> "photo"]
                ELSE IF post.embedded /\ "full" \in post.sizes
                THEN [from |-> "full", img |-> "photo"]
                ELSE IF post.embedded /\ post.source_url
                THEN [from |-> "source_url", img |-> "photo"]
                ELSE IF post.featured_media /\ post.fetchedMedia
                THEN [from |-> "byId", img |-> "photo"]
                ELSE IF fromContent # NoImage THEN fromContent
                ELSE fromExcerpt
        IN  /\ call.result = expected
            /\ call.result.img # "icon"

---------------------------------------------------------------------------
(* The url -> asset mapping of one article *)

\* C25: while one article is processed the url -> asset mapping is built
\* once: each distinct image URL is uploaded at most once, and the main
\* image reference and the rewrite of the body use the same mapping.
C25_OneMappingPerArticle ==
    call.name = "uploadArticleImages" =>
        LET r == call.result
        IN  /\ \A i, j \in DOMAIN r.uploads : i # j => r.uploads[i] # r.uploads[j]
            /\ \A i \in DOMAIN call.args.uniqueImages :
                   LET url == call.args.uniqueImages[i]
                   IN  (\E j \in DOMAIN r.mainImageMap : r.mainImageMap[j].url = url)
                           => (\E j \in DOMAIN r.imageMap : r.imageMap[j].url = url)

---------------------------------------------------------------------------
(* The per-run cap *)

\* C26: in one run the orchestrator starts processing at most the per-run
\* cap of 20 candidates: the store's create is invoked at most 20 times per
\* run and imported + failed never exceeds 20, however many candidates
\* remain after filtering.
C26_AtMostCapPerRun ==
    /\ Len(hist.creates) <= PerRunCap
    /\ run.imported + run.failed <= PerRunCap
    /\ run.handler # "idle" => run.candidates - Len(run.todo) + 1 <= PerRunCap

---------------------------------------------------------------------------
(* The skipped count of the run summary *)

\* C27: in the summary returned by the POST handler, skipped is the number
\* of fetched articles the run skipped (too old or duplicate in the batch
\* filter, or duplicate in the per-article re-check), each counted once:
\* the batch filter's skips plus the processed candidates that were neither
\* imported nor failed.
C27_SkippedCountedOnce ==
    [][ (/\ run.handler = "post"
         /\ run'.handler = "idle"
         /\ response'.status = 200
         /\ "failed" \in response'.fields) =>
            response'.skipped =
                run.batchSkipped
                + (run.candidates - response'.imported - response'.failed) ]_vars

---------------------------------------------------------------------------
(* Repeated quick imports *)

\* C28: repeated invocations of the quick-import endpoint never leave two
\* articles with the same rssGuid in the store: an article created by an
\* earlier invocation is not created again by a later one.
C28_QuickImportNeverRepeats ==
    \A i, j \in DOMAIN store :
        (i # j /\ hist.lastWrite.by = "quick") => store[i].rssGuid # store[j].rssGuid

---------------------------------------------------------------------------
(* Progress of the enhancement runs *)

\* C29: every enhance-articles invocation that reports enhanced: 1 leaves
\* the selected article with a non-empty htmlContentAr, so the number of
\* articles needing enhancement strictly decreases with it and no article
\* is selected again and again ahead of the older ones.
C29_EnhancedMeansProgress ==
    [][ (hist'.last.handler = "enhance" /\ runs' = runs + 1
         /\ response'.enhanced = 1) =>
            /\ Cardinality(needEnhancement') < Cardinality(needEnhancement)
            /\ \A i \in needEnhancement \ needEnhancement' :
                   store'[i].htmlContentAr # NoText ]_vars

---------------------------------------------------------------------------
(* Normalizing a GUID twice *)

\* C30: normalizeGuid is idempotent: normalizing a normalized GUID gives
\* the same string, for URLs with any number of trailing slashes, a query
\* or a fragment and for strings that are no URLs, so that normalizing a
\* stored rssGuid again never changes which fetched articles it matches.
C30_NormalizeGuidIdempotent ==
    call.name = "checkNewArticles" =>
        /\ normalizeGuid(call.result.rssGuid) = call.result.rssGuid
        /\ normalizeGuid(call.result.guid) = call.result.guid
        /\ (call.result.guid # NoUrl /\ call.result.guid = call.result.rssGuid)
               => ~call.result.isNew

===========================================================================
